---- MODULE Spec2Model ----
(***************************************************************************)
(* Model of respy/unit_base/auxil.pyx: resolution of unit strings          *)
(* (get_unit, get_unit_from_str), decomposition of symbolic expressions    *)
(* into magnitude and unit (decompose_expr, decompose_expr_array,          *)
(* decompose_expr_to_atoms) and dimension classification (get_dimension).  *)
(*                                                                         *)
(* The symbolic engine the module calls (sympy) is modelled by its         *)
(* canonical forms: a monomial  c * meter^e1 * second^e2 * radian^e3  with *)
(* a rational or floating coefficient c is kept in normal form, anything   *)
(* else is a free term  op(l, r).                                          *)
(***************************************************************************)
EXTENDS Integers, Sequences, FiniteSets, TLC

VARIABLES call, arg, ret

vars == <<call, arg, ret>>

(***************************************************************************)
(* Bounds of the model.                                                    *)
(***************************************************************************)
\* longest unit string, in space-separated fields, over the whole alphabet
MaxFields == 3
\* most operands of a well-formed string "a op b op c ..."
MaxOperands == 3
\* most elements of an input array
MaxElems == 4
\* fraction bits kept by the model of a double (53 significant bits in CPython)
FloatBits == 6
\* largest exponent of a unit in an input expression
MaxExp == 2

(***************************************************************************)
(* Numbers: a rational n/d in lowest terms, d > 0.  fl marks a floating    *)
(* point number (Python float, sympy Float), py a plain Python number.     *)
(***************************************************************************)
Abs(x) == IF x < 0 THEN -x ELSE x

RECURSIVE Gcd(_, _)
Gcd(a, b) == IF b = 0 THEN a ELSE Gcd(b, a % b)

RECURSIVE IPow(_, _)
IPow(b, k) == IF k = 0 THEN 1 ELSE b * IPow(b, k - 1)

\* the rational n/d (d # 0) in lowest terms with a positive denominator
Rat(n, d) ==
    LET g == Gcd(Abs(n), Abs(d))
        s == IF d < 0 THEN -1 ELSE 1
    IN  [n |-> (s * n) \div g, d |-> (s * d) \div g]

FloatScale == IPow(2, FloatBits)

\* n/d rounded to the nearest representable floating point number
RoundFl(n, d) ==
    LET r == Rat(n, d)
    IN  Rat((2 * r.n * FloatScale + r.d) \div (2 * r.d), FloatScale)

\* a coefficient: exact rational, or rounded when floating
Coef(n, d, fl) ==
    LET r == IF fl THEN RoundFl(n, d) ELSE Rat(n, d)
    IN  [n |-> r.n, d |-> r.d, fl |-> fl]

CMul(a, b) == Coef(a.n * b.n, a.d * b.d, a.fl \/ b.fl)

CAdd(a, b) == Coef(a.n * b.d + b.n * a.d, a.d * b.d, a.fl \/ b.fl)

\* a coefficient raised to an integer power (a.n # 0 when k < 0)
CPow(a, k) ==
    IF k >= 0 THEN Coef(IPow(a.n, k), IPow(a.d, k), a.fl)
    ELSE Coef(IPow(a.d, -k), IPow(a.n, -k), a.fl)

\* numeric equality of the engine: exact between two exact numbers or two
\* floats, at the float's precision between a float and an exact number
NumEq(a, b) ==
    IF a.fl = b.fl THEN a.n = b.n /\ a.d = b.d
    ELSE IF a.fl THEN RoundFl(b.n, b.d) = [n |-> a.n, d |-> a.d]
    ELSE RoundFl(a.n, a.d) = [n |-> b.n, d |-> b.d]

(***************************************************************************)
(* Values: Python numbers and symbolic expressions.                        *)
(***************************************************************************)
NoExp == <<0, 0, 0>>

Mono(c, e, py) ==
    [k |-> "mono", n |-> c.n, d |-> c.d, fl |-> c.fl, py |-> py,
     e |-> e, op |-> "", sub |-> <<>>]

Term(op, l, r) ==
    [k |-> "term", n |-> 0, d |-> 1, fl |-> FALSE, py |-> FALSE,
     e |-> NoExp, op |-> op, sub |-> <<l, r>>]

\* a value of a kind that carries no number and no operands
Atom(kind) ==
    [k |-> kind, n |-> 0, d |-> 1, fl |-> FALSE, py |-> FALSE,
     e |-> NoExp, op |-> "", sub |-> <<>>]

PyInt(i) == Mono(Coef(i, 1, FALSE), NoExp, TRUE)
PyFloat(n, d) == Mono(Coef(n, d, TRUE), NoExp, TRUE)
SymNum(n, d) == Mono(Coef(n, d, FALSE), NoExp, FALSE)
SymFloat(n, d) == Mono(Coef(n, d, TRUE), NoExp, FALSE)

CoefOf(v) == [n |-> v.n, d |-> v.d, fl |-> v.fl]

\* the unit objects of the registry
meter == Mono(Coef(1, 1, FALSE), <<1, 0, 0>>, FALSE)
second == Mono(Coef(1, 1, FALSE), <<0, 1, 0>>, FALSE)
radian == Mono(Coef(1, 1, FALSE), <<0, 0, 1>>, FALSE)

\* Python's None, and the absence of a value
None == Atom("None")
NoVal == Atom("nil")

IsNum(v) == v.k = "mono" /\ v.e = NoExp
IsExactOne(v) == IsNum(v) /\ v.n = 1 /\ v.d = 1 /\ ~v.fl
IsZeroNum(v) == IsNum(v) /\ v.n = 0
IsExactInt(v) == IsNum(v) /\ v.d = 1 /\ ~v.fl

(***************************************************************************)
(* The constants imported from respy.units (lines 12-15).                  *)
(***************************************************************************)
Zero == Atom("Zero")
One == Atom("One")
length == Atom("length")
area == Atom("area")
volume == Atom("volume")
time == Atom("time")

\* __OPERATION_LIST__
OPERATION_LIST == <<"*", "/", "+", "-", "**">>

\* __UNITS__ : the registry of unit names
UNITS == [u \in {"m", "s", "rad"} |->
            CASE u = "m" -> meter [] u = "s" -> second [] OTHER -> radian]

(***************************************************************************)
(* The engine's arithmetic on values (the operators applied at lines       *)
(* 86-94 and 136).                                                         *)
(***************************************************************************)
ExpAdd(e, f) == [i \in 1..3 |-> e[i] + f[i]]
ExpScale(e, k) == [i \in 1..3 |-> e[i] * k]

\* the number or monomial with coefficient c and exponents e
MkMono(c, e, py) ==
    IF c.n = 0 THEN Mono(c, NoExp, py) ELSE Mono(c, e, py /\ e = NoExp)

EngMul(a, b) ==
    IF a.k = "mono" /\ b.k = "mono"
    THEN MkMono(CMul(CoefOf(a), CoefOf(b)), ExpAdd(a.e, b.e), a.py /\ b.py)
    ELSE IF IsExactOne(a) THEN b
    ELSE IF IsExactOne(b) THEN a
    ELSE Term("*", a, b)

EngPow(a, b) ==
    IF IsExactOne(b) THEN a
    ELSE IF a.k = "mono" /\ IsExactInt(b) /\ (a.n # 0 \/ b.n >= 0)
    THEN MkMono(CPow(CoefOf(a), b.n), ExpScale(a.e, b.n), a.py /\ b.py)
    ELSE Term("**", a, b)

\* true division (from __future__ import division): two Python numbers give
\* a Python float, anything else is the engine's  a * b ** -1
EngDiv(a, b) ==
    IF a.py /\ b.py
    THEN MkMono(Coef(a.n * b.d, a.d * b.n, TRUE), NoExp, TRUE)
    ELSE EngMul(a, EngPow(b, SymNum(-1, 1)))

EngAdd(a, b) ==
    IF a.k = "mono" /\ b.k = "mono" /\ a.e = b.e
    THEN MkMono(CAdd(CoefOf(a), CoefOf(b)), a.e, a.py /\ b.py)
    ELSE IF IsZeroNum(a) THEN b
    ELSE IF IsZeroNum(b) THEN a
    ELSE Term("+", a, b)

EngNeg(b) ==
    IF b.k = "mono" THEN MkMono(CMul(Coef(-1, 1, FALSE), CoefOf(b)), b.e, b.py)
    ELSE Term("*", SymNum(-1, 1), b)

EngSub(a, b) == EngAdd(a, EngNeg(b))

\* the engine's equality  a == b
RECURSIVE SymEq(_, _)
SymEq(a, b) ==
    IF a.k = "mono" /\ b.k = "mono"
    THEN a.e = b.e /\ NumEq(CoefOf(a), CoefOf(b))
    ELSE IF a.k = "term" /\ b.k = "term"
    THEN /\ a.op = b.op
         /\ SymEq(a.sub[1], b.sub[1])
         /\ SymEq(a.sub[2], b.sub[2])
    ELSE a.k = b.k /\ a.k \notin {"mono", "term"}

(***************************************************************************)
(* Introspection of a value: str(type(v)), v.args, v.dimension, float(v).  *)
(***************************************************************************)
\* the exponents of a monomial that are not zero
Support(v) == {i \in 1..3 : v.e[i] # 0}

\* the class name that str(type(v)) shows
TypeName(v) ==
    IF v.k = "term"
    THEN CASE v.op = "**" -> "Pow" [] v.op = "*" -> "Mul" [] OTHER -> "Add"
    ELSE IF v.k # "mono" THEN v.k
    ELSE IF v.e = NoExp
    THEN (IF v.py THEN (IF v.fl THEN "float" ELSE "int")
          ELSE IF v.fl THEN "Float"
          ELSE IF v.d = 1 THEN "Integer" ELSE "Rational")
    ELSE IF ~IsExactOne(Mono(CoefOf(v), NoExp, FALSE)) THEN "Mul"
    ELSE IF Cardinality(Support(v)) > 1 THEN "Mul"
    ELSE IF \E i \in 1..3 : v.e[i] = 1 THEN "Quantity"
    ELSE "Pow"

UnitVec(i) == [j \in 1..3 |-> IF j = i THEN 1 ELSE 0]

Quantity(i) == Mono(Coef(1, 1, FALSE), UnitVec(i), FALSE)

\* the factor  unit_i ^ x  of a monomial
Factor(i, x) == Mono(Coef(1, 1, FALSE), ExpScale(UnitVec(i), x), FALSE)

RECURSIVE Factors(_, _)
Factors(v, i) ==
    IF i > 3 THEN <<>>
    ELSE (IF v.e[i] = 0 THEN <<>> ELSE <<Factor(i, v.e[i])>>) \o Factors(v, i + 1)

\* v.args : the ordered operands of an expression
Args(v) ==
    IF v.k = "term" THEN v.sub
    ELSE IF v.k # "mono" \/ v.e = NoExp THEN <<>>
    ELSE IF TypeName(v) = "Quantity" THEN <<>>
    ELSE IF TypeName(v) = "Pow"
    THEN LET i == CHOOSE j \in 1..3 : v.e[j] # 0
         IN  <<Quantity(i), SymNum(v.e[i], 1)>>
    ELSE (IF IsExactOne(Mono(CoefOf(v), NoExp, FALSE)) THEN <<>>
          ELSE <<Mono(CoefOf(v), NoExp, FALSE)>>) \o Factors(v, 1)

\* whether v has a dimension attribute, and the attribute
HasDimension(v) == TypeName(v) = "Quantity"

\* the dimension of a dimensionless quantity
Dimensionless == Atom("Dimension(1)")

DimensionOf(v) ==
    CASE v = meter -> length [] v = second -> time [] OTHER -> Dimensionless

\* dimension.name : the dimensionless dimension is named One
DimensionName(dim) == IF dim = Dimensionless THEN One ELSE dim

\* float(v): defined on numbers only (TypeError otherwise)
CanFloat(v) == IsNum(v)

FloatOf(v) == Mono(Coef(v.n, v.d, TRUE), NoExp, TRUE)

(***************************************************************************)
(* Arguments and results of the calls.                                     *)
(*                                                                         *)
(* A Python string is the sequence of its fields between single spaces     *)
(* ("" is <<"">>, "m  s" is <<"m", "", "s">>); an array is its shape and   *)
(* its elements in row-major order.                                        *)
(***************************************************************************)
Arr(shape, data) == [shape |-> shape, data |-> data]

NoArr == Arr(<<>>, <<>>)

\* a string, a symbolic object, another Python object, a numpy array
StrArg(s) == [t |-> "str", s |-> s, v |-> NoVal, a |-> NoArr]
SymArg(v) == [t |-> "sym", s |-> <<>>, v |-> v, a |-> NoArr]
ObjArg(v) == [t |-> "obj", s |-> <<>>, v |-> v, a |-> NoArr]
ArrArg(a) == [t |-> "array", s |-> <<>>, v |-> NoVal, a |-> a]

NoArg == ObjArg(NoVal)

\* a returned value, a returned (value, unit) pair, a raised exception
Return(v) == [st |-> "ok", val |-> v, tok |-> "", mag |-> NoArr, unit |-> NoArr]

ReturnPair(m, u) ==
    [st |-> "ok", val |-> NoVal, tok |-> "", mag |-> m, unit |-> u]

Raise(exc, tok) ==
    [st |-> exc, val |-> NoVal, tok |-> tok, mag |-> NoArr, unit |-> NoArr]

NoRet == Raise("none", "")

\* a scalar seen as an array of shape ()
Scalar(v) == Arr(<<>>, <<v>>)

\* __NONE_UNITS__ : the values that stand for "no unit"
NONE_UNITS == {ObjArg(None), ObjArg(PyInt(1)), StrArg(<<"">>)}

\* unit in __NONE_UNITS__ : Python's == against each member
InNoneUnits(unit) ==
    \E x \in NONE_UNITS :
        /\ unit.t = x.t
        /\ unit.s = x.s
        /\ \/ unit.v = x.v
           \/ IsNum(unit.v) /\ IsNum(x.v) /\ unit.v.n = x.v.n /\ unit.v.d = x.v.d

\* str(unit) of an object that is no string
StrOf(unit) ==
    IF unit.v.k = "None" THEN "None"
    ELSE IF IsNum(unit.v) THEN ToString(unit.v.n) \o "/" \o ToString(unit.v.d)
    ELSE "object"

(***************************************************************************)
(* get_unit_from_str                                                       *)
(***************************************************************************)
\* unit.split() : the fields that are not empty.  The tokens are byte strings
\* and compare by value with the literals of __OPERATION_LIST__ and the keys
\* of __UNITS__ (Python 2, where str is the byte string type).
Split(unit) == SelectSeq(unit, LAMBDA f : f # "")

InList(item, list) == \E i \in 1..Len(list) : list[i] = item

\* int(item) : the integer literals of the alphabet (ValueError otherwise)
IntLiterals == {"2", "3"}

IntOf(item) == IF item = "2" THEN 2 ELSE 3

\* ScanItems with a slip: an unknown name is remembered and the scan goes on,
\* so the last unknown name is the one reported
RECURSIVE ScanItemsLast(_, _, _, _)
ScanItemsLast(unit_str, i, unit_list, operand_list) ==
    IF i > Len(unit_str)
    THEN [err |-> "", unit_list |-> unit_list, operand_list |-> operand_list]
    ELSE LET item == unit_str[i]
         IN  IF InList(item, OPERATION_LIST)
             THEN ScanItemsLast(unit_str, i + 1, unit_list, Append(operand_list, item))
             ELSE IF item \in IntLiterals
             THEN ScanItemsLast(unit_str, i + 1,
                                Append(unit_list, PyInt(IntOf(item))), operand_list)
             ELSE IF item \in DOMAIN UNITS
             THEN ScanItemsLast(unit_str, i + 1,
                                Append(unit_list, UNITS[item]), operand_list)
             ELSE LET rest == ScanItemsLast(unit_str, i + 1, unit_list, operand_list)
                  IN  IF rest.err # "" THEN rest
                      ELSE [err |-> item, unit_list |-> unit_list,
                            operand_list |-> operand_list]

\* the loop of lines 64-78
RECURSIVE ScanItems(_, _, _, _)
ScanItems(unit_str, i, unit_list, operand_list) ==
    IF i > Len(unit_str)
    THEN [err |-> "", unit_list |-> unit_list, operand_list |-> operand_list]
    ELSE LET item == unit_str[i]
         IN  IF InList(item, OPERATION_LIST)
             THEN ScanItems(unit_str, i + 1, unit_list, Append(operand_list, item))
             ELSE IF item \in IntLiterals
             THEN ScanItems(unit_str, i + 1,
                            Append(unit_list, PyInt(IntOf(item))), operand_list)
             ELSE IF item \in DOMAIN UNITS
             THEN ScanItems(unit_str, i + 1,
                            Append(unit_list, UNITS[item]), operand_list)
             ELSE [err |-> item, unit_list |-> unit_list,
                   operand_list |-> operand_list]

\* ApplyOp with a slip: the branch of "/" multiplies
ApplyOpDivAsMul(op, unit_obj, item) ==
    CASE op = "*" -> EngMul(unit_obj, item)
      [] op = "/" -> EngMul(unit_obj, item)
      [] op = "+" -> EngAdd(unit_obj, item)
      [] op = "-" -> EngSub(unit_obj, item)
      [] op = "**" -> EngPow(unit_obj, item)
      [] OTHER -> unit_obj

\* one step of lines 85-94
ApplyOp(op, unit_obj, item) ==
    CASE op = "*" -> EngMul(unit_obj, item)
      [] op = "/" -> EngDiv(unit_obj, item)
      [] op = "+" -> EngAdd(unit_obj, item)
      [] op = "-" -> EngSub(unit_obj, item)
      [] op = "**" -> EngPow(unit_obj, item)
      [] OTHER -> unit_obj

\* Reduce with a slip: operand i is combined by operator i, not i - 1
RECURSIVE ReduceOffByOne(_, _, _, _)
ReduceOffByOne(unit_list, operand_list, i, unit_obj) ==
    IF i > Len(unit_list) THEN unit_obj
    ELSE IF i > Len(operand_list)
    THEN ReduceOffByOne(unit_list, operand_list, i + 1, unit_obj)
    ELSE ReduceOffByOne(unit_list, operand_list, i + 1,
                        ApplyOp(operand_list[i], unit_obj, unit_list[i]))

\* the loop of lines 82-96; i is the 1-based index of Python's unit_list[i-1]
RECURSIVE Reduce(_, _, _, _)
Reduce(unit_list, operand_list, i, unit_obj) ==
    IF i > Len(unit_list) THEN unit_obj
    ELSE IF i - 1 > Len(operand_list)
    THEN Reduce(unit_list, operand_list, i + 1, unit_obj)
    ELSE Reduce(unit_list, operand_list, i + 1,
                ApplyOp(operand_list[i - 1], unit_obj, unit_list[i]))

get_unit_from_str(unit) ==
    LET unit_str == Split(unit)
        scan == ScanItems(unit_str, 1, <<>>, <<>>)
    IN  IF scan.err # "" THEN Raise("UnitError", scan.err)
        ELSE IF scan.unit_list = <<>> THEN Raise("IndexError", "")
        ELSE Return(Reduce(scan.unit_list, scan.operand_list, 2, scan.unit_list[1]))

(***************************************************************************)
(* get_unit                                                                *)
(***************************************************************************)
get_unit(unit) ==
    IF unit.t = "sym" THEN Return(unit.v)
    ELSE IF unit.t = "str" THEN get_unit_from_str(unit.s)
    ELSE IF InNoneUnits(unit) THEN Return(Zero)
    ELSE Raise("UnitError", StrOf(unit))

(***************************************************************************)
(* get_dimension                                                           *)
(***************************************************************************)
\* DimensionOfUnit with a slip: the dimension of the base is not compared
\* with length
DimensionOfUnitAnyBase(unit) ==
    IF TypeName(unit) = "Quantity"
    THEN LET dimension == DimensionOf(unit)
         IN  IF DimensionName(dimension) = One THEN Zero ELSE dimension
    ELSE IF TypeName(unit) = "Pow"
    THEN LET unit_base == Args(unit)[1]
             exp == Args(unit)[2]
         IN  IF HasDimension(unit_base)
             THEN IF SymEq(exp, SymNum(2, 1)) THEN area
                  ELSE IF SymEq(exp, SymNum(3, 1)) THEN volume
                  ELSE Zero
             ELSE Zero
    ELSE Zero

\* lines 153-186, on the resolved unit
DimensionOfUnit(unit) ==
    IF TypeName(unit) = "Quantity"
    THEN IF HasDimension(unit)
         THEN LET dimension == DimensionOf(unit)
              IN  IF DimensionName(dimension) = One THEN Zero ELSE dimension
         ELSE Zero
    ELSE IF TypeName(unit) = "Pow"
    THEN LET unit_base == Args(unit)[1]
             exp == Args(unit)[2]
         IN  IF HasDimension(unit_base)
             THEN IF DimensionOf(unit_base) = length
                  THEN IF SymEq(exp, SymNum(2, 1)) THEN area
                       ELSE IF SymEq(exp, SymNum(3, 1)) THEN volume
                       ELSE Zero
                  ELSE Zero
             ELSE Zero
    ELSE Zero

\* get_dimension with the errors of get_unit swallowed
get_dimension_total(unit) ==
    LET r == get_unit(unit)
    IN  IF r.st # "ok" THEN Return(Zero) ELSE Return(DimensionOfUnit(r.val))

get_dimension(unit) ==
    LET r == get_unit(unit)
    IN  IF r.st # "ok" THEN r ELSE Return(DimensionOfUnit(r.val))

(***************************************************************************)
(* decompose_expr                                                          *)
(***************************************************************************)
\* MulRest with a slip: the last operand is left out
RECURSIVE MulRestDropLast(_, _, _)
MulRestDropLast(unit, i, unit_obj) ==
    IF i >= Len(unit) THEN unit_obj
    ELSE MulRestDropLast(unit, i + 1, EngMul(unit_obj, unit[i]))

\* the loop of lines 133-136: unit[0] * unit[1] * ... from index i on
RECURSIVE MulRest(_, _, _)
MulRest(unit, i, unit_obj) ==
    IF i > Len(unit) THEN unit_obj
    ELSE MulRest(unit, i + 1, EngMul(unit_obj, unit[i]))

\* decompose_expr without the except clause of lines 138-140
decompose_expr_noexcept(expr) ==
    IF TypeName(expr) = "Pow" THEN ReturnPair(Scalar(PyInt(1)), Scalar(expr))
    ELSE IF TypeName(expr) = "Mul"
    THEN LET value == Args(expr)[1]
         IN  IF CanFloat(value)
             THEN LET unit == SubSeq(Args(expr), 2, Len(Args(expr)))
                  IN  IF Len(unit) = 1
                      THEN ReturnPair(Scalar(FloatOf(value)), Scalar(unit[1]))
                      ELSE ReturnPair(Scalar(FloatOf(value)),
                                      Scalar(MulRest(unit, 2, unit[1])))
             ELSE Raise("TypeError", TypeName(expr))
    ELSE Raise("TypeError", TypeName(expr))

decompose_expr(expr) ==
    IF TypeName(expr) = "Pow" THEN ReturnPair(Scalar(PyInt(1)), Scalar(expr))
    ELSE IF TypeName(expr) = "Mul"
    THEN LET value == Args(expr)[1]
         IN  IF CanFloat(value)
             THEN LET unit == SubSeq(Args(expr), 2, Len(Args(expr)))
                  IN  IF Len(unit) = 1
                      THEN ReturnPair(Scalar(FloatOf(value)), Scalar(unit[1]))
                      ELSE ReturnPair(Scalar(FloatOf(value)),
                                      Scalar(MulRest(unit, 2, unit[1])))
             ELSE ReturnPair(Scalar(PyInt(1)), Scalar(expr))
    ELSE Raise("TypeError", TypeName(expr))

(***************************************************************************)
(* decompose_expr_array                                                    *)
(***************************************************************************)
RECURSIVE Prod(_)
Prod(shape) == IF shape = <<>> THEN 1 ELSE Head(shape) * Prod(Tail(shape))

\* a[0] : the first entry along the first axis
First(a) == Arr(Tail(a.shape), SubSeq(a.data, 1, Prod(Tail(a.shape))))

\* np.any(a[0] == a) : a[0] is broadcast along the first axis
AnyEqualFirst(a) ==
    LET row == First(a)
        w == Len(row.data)
    IN  \E p \in 1..Len(a.data) : SymEq(row.data[((p - 1) % w) + 1], a.data[p])

\* value.astype(np.double)
AsDouble(a) == Arr(a.shape, [p \in 1..Len(a.data) |-> FloatOf(a.data[p])])

\* the exception of the first element decompose_expr rejects, if any
FirstRaise(items) ==
    IF \E p \in 1..Len(items) : decompose_expr(items[p]).st # "ok"
    THEN decompose_expr(items[CHOOSE p \in 1..Len(items) :
             /\ decompose_expr(items[p]).st # "ok"
             /\ \A q \in 1..(p - 1) : decompose_expr(items[q]).st = "ok"])
    ELSE NoRet

decompose_expr_array(value) ==
    LET shape == value.shape
        value_flatten == value.data
        failed == FirstRaise(value_flatten)
        values == Arr(shape, [p \in 1..Len(value_flatten) |->
                        decompose_expr(value_flatten[p]).mag.data[1]])
        unit == Arr(shape, [p \in 1..Len(value_flatten) |->
                        decompose_expr(value_flatten[p]).unit.data[1]])
    IN  IF failed.st # "none" THEN failed
        ELSE IF AnyEqualFirst(unit) THEN ReturnPair(AsDouble(values), First(unit))
        ELSE Raise("ValueError", "units for all values must be equal")

(***************************************************************************)
(* decompose_expr_to_atoms                                                 *)
(***************************************************************************)
decompose_expr_to_atoms(value) ==
    IF value.t = "sym" THEN decompose_expr(value.v)
    ELSE IF value.t = "array" THEN decompose_expr_array(value.a)
    ELSE Raise("TypeError", "not a valid expression")

(***************************************************************************)
(* The inputs of the calls.                                                *)
(***************************************************************************)
\* the sequences over S of length 1..n
SeqsUpTo(S, n) == UNION {[1..k -> S] : k \in 1..n}

Operators == {OPERATION_LIST[i] : i \in 1..Len(OPERATION_LIST)}

\* fields of a unit string: operators, integers, registered and unregistered
\* names, and the empty field between two adjacent spaces
Fields == Operators \cup IntLiterals \cup DOMAIN UNITS \cup {"banana", "m/s", ""}

\* "a op b op c": operands and operators in turn
Interleave(a, o) ==
    [i \in 1..(2 * Len(a) - 1) |->
        IF i % 2 = 1 THEN a[(i + 1) \div 2] ELSE o[i \div 2]]

WellFormed ==
    UNION {{Interleave(a, o) : a \in [1..k -> {"m", "s", "2"}],
                               o \in [1..(k - 1) -> Operators]} :
           k \in 1..MaxOperands}

Strings == SeqsUpTo(Fields, MaxFields) \cup WellFormed

\* symbolic expressions: numbers and monomials, and some sums, powers of
\* sums and products of sums
Coefs ==
    {Coef(1, 1, FALSE), Coef(2, 1, FALSE), Coef(1, 3, FALSE), Coef(-1, 1, FALSE),
     Coef(3, 1, TRUE), Coef(5, 2, TRUE), Coef(2, 1, TRUE)}

Exps == {<<a, b, c>> : a \in -1..MaxExp, b \in -1..MaxExp, c \in 0..1}

Exprs ==
    {MkMono(c, e, FALSE) : c \in Coefs, e \in Exps}
    \cup {Term("+", meter, second),
          Term("**", Term("+", meter, second), SymNum(2, 1)),
          Term("*", Term("+", meter, second), meter)}

\* Python objects that are neither strings nor symbolic expressions
Objects == {None, PyInt(1), PyInt(7), PyFloat(1, 1), PyFloat(5, 2)}

UnitArgs ==
    {StrArg(s) : s \in Strings} \cup {SymArg(v) : v \in Exprs}
    \cup {ObjArg(v) : v \in Objects}

\* arrays of 1, 2 or 3 axes
Elems ==
    {EngMul(SymFloat(3, 1), meter), EngMul(SymNum(2, 1), meter),
     EngMul(SymFloat(2, 1), second), EngPow(meter, SymNum(2, 1)), meter}

Shapes(n) == {sh \in SeqsUpTo(1..n, 3) : Prod(sh) = n}

Arrays ==
    UNION {{Arr(sh, d) : sh \in Shapes(n), d \in [1..n -> Elems]} : n \in 1..MaxElems}

(***************************************************************************)
(* The calls: each is one atomic step from the idle state, and Done gives  *)
(* control back to the caller.                                             *)
(***************************************************************************)
Init ==
    /\ call = "idle"
    /\ arg = NoArg
    /\ ret = NoRet

GetUnit ==
    /\ call = "idle"
    /\ \E unit \in UnitArgs :
        /\ call' = "get_unit"
        /\ arg' = unit
        /\ ret' = get_unit(unit)

GetDimension ==
    /\ call = "idle"
    /\ \E unit \in UnitArgs :
        /\ call' = "get_dimension"
        /\ arg' = unit
        /\ ret' = get_dimension(unit)

DecomposeExpr ==
    /\ call = "idle"
    /\ \E expr \in Exprs :
        /\ call' = "decompose_expr"
        /\ arg' = SymArg(expr)
        /\ ret' = decompose_expr(expr)

DecomposeExprArray ==
    /\ call = "idle"
    /\ \E value \in Arrays :
        /\ call' = "decompose_expr_array"
        /\ arg' = ArrArg(value)
        /\ ret' = decompose_expr_array(value)

DecomposeExprToAtoms ==
    /\ call = "idle"
    /\ \E value \in {SymArg(v) : v \in Exprs} \cup {ArrArg(a) : a \in Arrays}
                    \cup {ObjArg(v) : v \in Objects} :
        /\ call' = "decompose_expr_to_atoms"
        /\ arg' = value
        /\ ret' = decompose_expr_to_atoms(value)

Done ==
    /\ call # "idle"
    /\ call' = "idle"
    /\ arg' = NoArg
    /\ ret' = NoRet

\* unit resolution and dimension classification
Next == GetUnit \/ GetDimension \/ Done

Spec == Init /\ [][Next]_vars

\* decomposition of expressions and arrays
NextDecompose == DecomposeExpr \/ DecomposeExprArray \/ DecomposeExprToAtoms \/ Done

SpecDecompose == Init /\ [][NextDecompose]_vars

(***************************************************************************)
(* Properties of get_unit and get_unit_from_str.                           *)
(***************************************************************************)
\* the whitespace-separated tokens of a string argument
Tokens(a) == SelectSeq(a.s, LAMBDA f : f # "")

ValidToken(tok) ==
    tok \in {"*", "/", "+", "-", "**"} \cup IntLiterals \cup DOMAIN UNITS

AllValid(a) == \A i \in 1..Len(Tokens(a)) : ValidToken(Tokens(a)[i])

\* the first token that is no operator, no integer and no registered name
FirstInvalid(a) ==
    LET toks == Tokens(a)
        i == CHOOSE j \in 1..Len(toks) :
                /\ ~ValidToken(toks[j])
                /\ \A h \in 1..(j - 1) : ValidToken(toks[h])
    IN  toks[i]

IsOperator(tok) == tok \in {"*", "/", "+", "-", "**"}

OperatorTokens(a) == SelectSeq(Tokens(a), IsOperator)

OperandTokens(a) == SelectSeq(Tokens(a), LAMBDA f : ~IsOperator(f))

\* the value an operand token stands for
OperandValue(tok) ==
    IF tok \in DOMAIN UNITS THEN UNITS[tok] ELSE PyInt(IntOf(tok))

\* acc op x, by the engine's operator
Combine(op, acc, x) ==
    IF op = "*" THEN EngMul(acc, x)
    ELSE IF op = "/" THEN EngDiv(acc, x)
    ELSE IF op = "+" THEN EngAdd(acc, x)
    ELSE IF op = "-" THEN EngSub(acc, x)
    ELSE EngPow(acc, x)

\* the accumulator after operand i (0-based), as the fold is specified
RECURSIVE Accumulator(_, _, _)
Accumulator(operands, ops, i) ==
    IF i = 0 THEN OperandValue(operands[1])
    ELSE LET before == Accumulator(operands, ops, i - 1)
         IN  IF i - 1 < Len(ops)
             THEN Combine(ops[i], before, OperandValue(operands[i + 1]))
             ELSE before

MPerS2 == StrArg(<<"m", "/", "s", "**", "2">>)

\* C2 as stated: get_unit("m / s ** 2") is equal to meter * second ** -2.
C2_MeterPerSecondSquared ==
    (call = "get_unit" /\ arg = MPerS2) =>
        /\ ret.st = "ok"
        /\ SymEq(ret.val, EngMul(meter, EngPow(second, SymNum(-2, 1))))

\* C2 amended: get_unit("m / s ** 2") is equal to (meter / second) ** 2, that
\* is meter ** 2 * second ** -2: the operators are applied left to right.
C2_LeftToRightSquare ==
    (call = "get_unit" /\ arg = MPerS2) =>
        /\ ret.st = "ok"
        /\ SymEq(ret.val, EngMul(EngPow(meter, SymNum(2, 1)),
                                 EngPow(second, SymNum(-2, 1))))

C2_Witness == call = "get_unit" /\ arg = MPerS2 /\ ret.st = "ok"

\* C6: get_unit returns Zero, and raises nothing, for every no-unit sentinel
\* (None, 1, the empty string).
C6_SentinelsGiveZero ==
    (call = "get_unit" /\ arg \in NONE_UNITS) => ret = Return(Zero)

\* C8: a string with a token that is no operator, no integer literal and no
\* registered name makes get_unit raise UnitError naming the first such
\* token, wherever it stands, and nothing is returned.
C8_UnitErrorNamesFirstInvalid ==
    (call = "get_unit" /\ arg.t = "str" /\ ~AllValid(arg)) =>
        /\ ret.st = "UnitError"
        /\ ret.tok = FirstInvalid(arg)
        /\ ret.val = NoVal

C8_Witness ==
    /\ call = "get_unit"
    /\ arg = StrArg(<<"m", "m/s", "banana">>)
    /\ ret.st = "UnitError"
    /\ ret.tok = "m/s"

\* C9: for a string of valid tokens with at least one operand, get_unit
\* returns the left-to-right fold without precedence: operators are paired
\* with operands by index, a missing operator leaves the accumulator as it
\* is, and surplus operators are ignored.
C9_LeftToRightFold ==
    (call = "get_unit" /\ arg.t = "str" /\ AllValid(arg)
        /\ Len(OperandTokens(arg)) >= 1) =>
        /\ ret.st = "ok"
        /\ ret.val = Accumulator(OperandTokens(arg), OperatorTokens(arg),
                                 Len(OperandTokens(arg)) - 1)

\* a string that starts with an operator: it is paired with the first two
\* operands, whatever its place
C9_Witness ==
    /\ call = "get_unit"
    /\ arg.t = "str"
    /\ AllValid(arg)
    /\ Len(OperandTokens(arg)) >= 2
    /\ Len(OperatorTokens(arg)) >= 1
    /\ IsOperator(Tokens(arg)[1])
    /\ ret.st = "ok"

(***************************************************************************)
(* Properties of get_dimension.                                            *)
(***************************************************************************)
DimensionTags == {Zero, length, time, area, volume}

\* the arguments get_unit resolves: a symbolic object, a string of valid
\* tokens with at least one operand, a no-unit sentinel that is no string
Resolvable(a) ==
    \/ a.t = "sym"
    \/ a.t = "str" /\ AllValid(a) /\ Len(OperandTokens(a)) >= 1
    \/ a.t = "obj" /\ InNoneUnits(a)

Resolved == get_unit(arg).val

IsPower(u) == TypeName(u) = "Pow"

\* C5: for a resolved unit that is a power and no quantity, get_dimension
\* returns area for a length base with exponent 2, volume for a length base
\* with exponent 3, and Zero in every other case.
C5_PowerDimension ==
    (call = "get_dimension" /\ Resolvable(arg) /\ IsPower(Resolved)) =>
        LET base == Args(Resolved)[1]
            exp == Args(Resolved)[2]
        IN  ret = Return(IF base = meter /\ exp = SymNum(2, 1) THEN area
                         ELSE IF base = meter /\ exp = SymNum(3, 1) THEN volume
                         ELSE Zero)

\* meter ** 4 is classified Zero
C5_Witness ==
    /\ call = "get_dimension"
    /\ arg = StrArg(<<"m", "**", "2", "**", "2">>)
    /\ IsPower(Resolved)
    /\ ret = Return(Zero)

(***************************************************************************)
(* Properties of decompose_expr and decompose_expr_array.                  *)
(***************************************************************************)
\* the product of the operands of a sequence, from the left
RECURSIVE LeftProduct(_)
LeftProduct(xs) ==
    IF Len(xs) = 1 THEN xs[1]
    ELSE EngMul(LeftProduct(SubSeq(xs, 1, Len(xs) - 1)), xs[Len(xs)])

\* the (magnitude, unit) pair C4 specifies for an expression
Reference(e) ==
    IF TypeName(e) = "Pow" THEN <<"ok", PyInt(1), e>>
    ELSE IF TypeName(e) # "Mul" THEN <<"TypeError", NoVal, NoVal>>
    ELSE IF IsNum(Args(e)[1])
    THEN <<"ok", PyFloat(Args(e)[1].n, Args(e)[1].d), LeftProduct(Tail(Args(e)))>>
    ELSE <<"ok", PyInt(1), e>>

\* what a call of decompose_expr gave
Outcome(r) ==
    IF r.st = "ok" THEN <<"ok", r.mag.data[1], r.unit.data[1]>>
    ELSE <<r.st, NoVal, NoVal>>

\* C4: decompose_expr gives (1, e) for a Pow, (float of the first operand,
\* left-to-right product of the other operands) for a Mul whose first operand
\* converts to a float, (1, e) for any other Mul, and a type error otherwise.
C4_DecomposeReference ==
    call = "decompose_expr" =>
        /\ Outcome(ret) = Reference(arg.v)
        /\ ret.st = "ok" => (ret.mag.shape = <<>> /\ ret.unit.shape = <<>>)

\* a product of a number and two units
C4_Witness ==
    /\ call = "decompose_expr"
    /\ TypeName(arg.v) = "Mul"
    /\ Len(Args(arg.v)) = 3
    /\ IsNum(Args(arg.v)[1])
    /\ ret.st = "ok"

\* C10: when decompose_expr returns (value, unit), value * unit is equal to
\* the expression.
C10_RoundTrip ==
    (call = "decompose_expr" /\ ret.st = "ok") =>
        SymEq(EngMul(ret.mag.data[1], ret.unit.data[1]), arg.v)

\* meter * second / 3: the magnitude is a rounded float
C10_Witness ==
    /\ call = "decompose_expr"
    /\ ret.st = "ok"
    /\ arg.v.k = "mono"
    /\ arg.v.d = 3
    /\ Cardinality(Support(arg.v)) >= 2
    /\ ret.mag.data[1].fl

\* the residual unit of each element of an array argument
Residual(a, p) == decompose_expr(a.data[p]).unit.data[1]

Magnitude(a, p) == decompose_expr(a.data[p]).mag.data[1]

AllDecompose(a) == \A p \in 1..Len(a.data) : decompose_expr(a.data[p]).st = "ok"

Uniform(a) == \A p \in 1..Len(a.data) : SymEq(Residual(a, p), Residual(a, 1))

\* C1: when every element decomposes, decompose_expr_array raises the value
\* error exactly when some element's residual unit differs from the first
\* element's.
C1_NonUniformRaises ==
    (call = "decompose_expr_array" /\ AllDecompose(arg.a)) =>
        IF Uniform(arg.a) THEN ret.st = "ok" ELSE ret.st = "ValueError"

\* C7: for an array of 1, 2 or 3 axes whose elements share one residual unit,
\* decompose_expr_array returns the magnitudes in the shape of the input and
\* one single unit, the first element's residual unit.
C7_ShapeAndSingleUnit ==
    (call = "decompose_expr_array" /\ AllDecompose(arg.a) /\ Uniform(arg.a)) =>
        /\ ret.st = "ok"
        /\ ret.mag.shape = arg.a.shape
        /\ Len(ret.mag.data) = Len(arg.a.data)
        /\ \A p \in 1..Len(arg.a.data) :
              NumEq(CoefOf(ret.mag.data[p]), CoefOf(Magnitude(arg.a, p)))
        /\ ret.unit.shape = <<>>
        /\ ret.unit.data = <<Residual(arg.a, 1)>>

====
